---- MODULE Spec2Model ----
(***************************************************************************)
(* A model of the GitHub MCP server of src/src/github/index.ts: the two    *)
(* exported facades (createPRReviewComment, updatePullRequest), the        *)
(* ListTools and CallTool request handlers, and the process start-up.      *)
(*                                                                         *)
(* A JavaScript value is a record [t, s, n, b]: its type tag and its       *)
(* string, number or boolean payload.  A JavaScript object is a record     *)
(* over a fixed key universe whose absent properties hold Undefined.       *)
(* Strings are TLA+ strings, so messages and URLs are built by             *)
(* concatenation exactly as the template literals of the source do.        *)
(***************************************************************************)
EXTENDS Integers, Sequences, FiniteSets, TLC

\* ------------------------------------------------------------------ bounds

\* pull_number ranges over 1..MaxPullNumber
MaxPullNumber == 2
\* line and start_line range over 1..MaxLine
MaxLine == 2

\* --------------------------------------------------------- JavaScript values

Val(t, s, n, b) == [t |-> t, s |-> s, n |-> n, b |-> b]
Undefined == Val("undefined", "", 0, FALSE)
Str(s) == Val("string", s, 0, FALSE)
Num(n) == Val("number", "", n, FALSE)
Bool(b) == Val("boolean", "", 0, b)

\* JavaScript truthiness, as `||` and `!` read it.
Falsy(v) ==
  \/ v.t = "undefined"
  \/ v.t = "string" /\ v.s = ""
  \/ v.t = "number" /\ v.n = 0
  \/ v.t = "boolean" /\ v.b = FALSE

\* `${v}` in a template literal.
TemplateString(v) ==
  CASE v.t = "string" -> v.s
    [] v.t = "number" -> ToString(v.n)
    [] v.t = "boolean" -> (IF v.b THEN "true" ELSE "false")
    [] OTHER -> "undefined"

\* Array.prototype.join
RECURSIVE Join(_, _)
Join(seq, sep) ==
  IF seq = <<>> THEN ""
  ELSE IF Len(seq) = 1 THEN seq[1]
  ELSE seq[1] \o sep \o Join(Tail(seq), sep)

Range(seq) == {seq[j] : j \in 1..Len(seq)}

\* ------------------------------------------------------------------ objects

\* The property names of tool arguments and facade parameters.
ArgKeys ==
  <<"owner", "repo", "pull_number", "title", "body", "state", "base",
    "maintainer_can_modify", "commit_id", "path", "line", "side",
    "start_line", "start_side", "event", "head", "draft">>

\* The property names read from a response body.
RespKeys == <<"id", "path", "body", "state", "title">>

EmptyArgs == [k \in Range(ArgKeys) |-> Undefined]
EmptyBody == [k \in Range(RespKeys) |-> Undefined]

\* The own properties of an object that hold a value.
OwnKeys(obj) == {k \in DOMAIN obj : obj[k] # Undefined}

\* JSON text of one value.
JSONValue(v) ==
  CASE v.t = "string" -> "\"" \o v.s \o "\""
    [] v.t = "number" -> ToString(v.n)
    [] v.t = "boolean" -> (IF v.b THEN "true" ELSE "false")
    [] OTHER -> "null"

\* JSON.stringify(obj) of a flat object: its members in property order, a
\* property whose value is undefined left out.  The text is kept as its
\* member list <<key, value>>, which is what the receiver parses it back to.
JSONstringify(obj, order) ==
  SelectSeq([j \in 1..Len(order) |-> <<order[j], obj[order[j]]>>],
            LAMBDA m : m[2] # Undefined)

\* The same text as characters.
JSONText(members) ==
  "{" \o Join([j \in 1..Len(members) |->
                 "\"" \o members[j][1] \o "\":" \o JSONValue(members[j][2])], ",")
      \o "}"

\* JSON.stringify(obj, null, 2)
JSONstringifyIndented(obj, order) ==
  LET members == JSONstringify(obj, order)
  IN IF members = <<>> THEN "{}"
     ELSE "{\n" \o Join([j \in 1..Len(members) |->
                 "  \"" \o members[j][1] \o "\": " \o JSONValue(members[j][2])], ",\n")
          \o "\n}"

\* The keys and the value of a member list, as the receiver reads them.
BodyKeys(members) == {members[j][1] : j \in 1..Len(members)}
BodyValue(members, k) ==
  IF k \in BodyKeys(members)
  THEN (CHOOSE m \in Range(members) : m[1] = k)[2]
  ELSE Undefined

\* ------------------------------------------------------------------- errors

\* A thrown error: its class, its message and, for a ZodError, its issues.
Err(kind, message, issues) == [kind |-> kind, message |-> message, issues |-> issues]
NoError == Err("", "", <<>>)

\* ------------------------------------------------------------------ schemas

Field(key, type, required, options) ==
  [key |-> key, type |-> type, required |-> required, options |-> options]

\* The input schema of the update_pull_request tool.
UpdatePullRequestSchema ==
  << Field("owner", "string", TRUE, <<>>),
     Field("repo", "string", TRUE, <<>>),
     Field("pull_number", "number", TRUE, <<>>),
     Field("title", "string", FALSE, <<>>),
     Field("body", "string", FALSE, <<>>),
     Field("state", "enum", FALSE, <<"open", "closed">>),
     Field("base", "string", FALSE, <<>>),
     Field("maintainer_can_modify", "boolean", FALSE, <<>>) >>

\* The input schema of the create_pr_review_comment tool.
CreatePRReviewCommentSchema ==
  << Field("owner", "string", TRUE, <<>>),
     Field("repo", "string", TRUE, <<>>),
     Field("pull_number", "number", TRUE, <<>>),
     Field("body", "string", TRUE, <<>>),
     Field("commit_id", "string", TRUE, <<>>),
     Field("path", "string", TRUE, <<>>),
     Field("line", "number", TRUE, <<>>),
     Field("side", "enum", FALSE, <<"LEFT", "RIGHT">>),
     Field("start_line", "number", FALSE, <<>>),
     Field("start_side", "enum", FALSE, <<"LEFT", "RIGHT">>) >>

\* The response schema of a pull request (the fields the model reads).
GitHubPullRequestSchema ==
  << Field("id", "number", TRUE, <<>>),
     Field("state", "string", TRUE, <<>>),
     Field("title", "string", TRUE, <<>>) >>

\* The response schema of a review comment (the fields the model reads).
GitHubPRReviewCommentSchema ==
  << Field("id", "number", TRUE, <<>>),
     Field("path", "string", TRUE, <<>>),
     Field("body", "string", TRUE, <<>>) >>

\* The response schema of a review (the fields the model reads).
GitHubPullRequestReviewSchema ==
  << Field("id", "number", TRUE, <<>>),
     Field("state", "string", TRUE, <<>>),
     Field("body", "string", TRUE, <<>>) >>

\* A variant that takes the review event for any string, or none.
CreatePullRequestReviewSchemaOpenEvent ==
  << Field("owner", "string", TRUE, <<>>),
     Field("repo", "string", TRUE, <<>>),
     Field("pull_number", "number", TRUE, <<>>),
     Field("body", "string", TRUE, <<>>),
     Field("event", "string", FALSE, <<>>),
     Field("commit_id", "string", FALSE, <<>>) >>

\* The parameters of createPullRequestReview.
CreatePullRequestReviewSchema ==
  << Field("owner", "string", TRUE, <<>>),
     Field("repo", "string", TRUE, <<>>),
     Field("pull_number", "number", TRUE, <<>>),
     Field("body", "string", TRUE, <<>>),
     Field("event", "enum", TRUE, <<"APPROVE", "REQUEST_CHANGES", "COMMENT">>),
     Field("commit_id", "string", FALSE, <<>>) >>

\* A variant that takes title, head and base for any string.
CreatePullRequestSchemaAnyString ==
  << Field("owner", "string", TRUE, <<>>),
     Field("repo", "string", TRUE, <<>>),
     Field("title", "string", FALSE, <<>>),
     Field("head", "string", FALSE, <<>>),
     Field("base", "string", FALSE, <<>>),
     Field("body", "string", FALSE, <<>>),
     Field("draft", "boolean", FALSE, <<>>),
     Field("maintainer_can_modify", "boolean", FALSE, <<>>) >>

\* The parameters of createPullRequest.
CreatePullRequestSchema ==
  << Field("owner", "string", TRUE, <<>>),
     Field("repo", "string", TRUE, <<>>),
     Field("title", "nonempty", TRUE, <<>>),
     Field("head", "nonempty", TRUE, <<>>),
     Field("base", "nonempty", TRUE, <<>>),
     Field("body", "string", FALSE, <<>>),
     Field("draft", "boolean", FALSE, <<>>),
     Field("maintainer_can_modify", "boolean", FALSE, <<>>) >>

SchemaKeys(schema) == {schema[j].key : j \in 1..Len(schema)}
SchemaOrder(schema) == [j \in 1..Len(schema) |-> schema[j].key]

\* Whether a value violates a field of a schema.
Violates(f, v) ==
  IF v = Undefined THEN f.required
  ELSE IF f.type = "enum" THEN ~(v.t = "string" /\ v.s \in Range(f.options))
  ELSE IF f.type = "nonempty" THEN ~(v.t = "string" /\ v.s # "")
  ELSE v.t # f.type

\* The message of the issue the validator raises for a violated field.
IssueMessage(f, v) ==
  IF v = Undefined THEN "Required"
  ELSE IF f.type = "enum"
  THEN "Invalid enum value. Expected "
         \o Join([j \in 1..Len(f.options) |-> "'" \o f.options[j] \o "'"], " | ")
         \o ", received '" \o TemplateString(v) \o "'"
  ELSE IF f.type = "nonempty"
  THEN (IF v.t = "string" THEN "String must contain at least 1 character(s)"
        ELSE "Expected string, received " \o v.t)
  ELSE "Expected " \o f.type \o ", received " \o v.t

\* The issues of one parse: every violated field in schema order, none skipped.
RECURSIVE ZodIssues(_, _)
ZodIssues(schema, obj) ==
  IF schema = <<>> THEN <<>>
  ELSE LET f == Head(schema)
           v == obj[f.key]
       IN (IF Violates(f, v)
           THEN << [path |-> <<f.key>>, message |-> IssueMessage(f, v)] >>
           ELSE <<>>) \o ZodIssues(Tail(schema), obj)

\* The message of a ZodError: the JSON text of its issues.
ZodMessage(issues) ==
  "[" \o Join([j \in 1..Len(issues) |->
                 "{\"path\":[\"" \o Join(issues[j].path, "\",\"")
                   \o "\"],\"message\":\"" \o issues[j].message \o "\"}"], ",")
      \o "]"

ZodError(issues) == Err("ZodError", ZodMessage(issues), issues)

\* The value schema.parse returns: the declared keys of the input.
ZodOutput(schema, obj) ==
  [k \in DOMAIN obj |-> IF k \in SchemaKeys(schema) THEN obj[k] ELSE Undefined]

\* ------------------------------------------------------------ the facades

\* A variant that declares the body as plain text.
HeadersPlainText(token) ==
  [Authorization |-> "token " \o TemplateString(token),
   Accept |-> "application/vnd.github.v3+json",
   UserAgent |-> "github-mcp-server",
   ContentType |-> "text/plain"]

\* The header set both facades attach; the token is the one read at start-up.
Headers(token) ==
  [Authorization |-> "token " \o TemplateString(token),
   Accept |-> "application/vnd.github.v3+json",
   UserAgent |-> "github-mcp-server",
   ContentType |-> "application/json"]

Request(method, url, headers, body) ==
  [method |-> method, url |-> url, headers |-> headers, body |-> body]

\* A variant that overrides the side the caller passed.
SideAlwaysRight(side) == Str("RIGHT")

\* `side || "RIGHT"`
SideOrDefault(side) == IF Falsy(side) THEN Str("RIGHT") ELSE side

\* The object literal createPRReviewComment serializes.
CommentBodyOrder ==
  <<"body", "commit_id", "path", "line", "side", "start_line", "start_side">>

\* A variant that fills an absent start of the range from the line and side.
CommentBodyStartDefaulted(body, commitId, path, line, side, startLine, startSide) ==
  [EmptyArgs EXCEPT !["body"] = body,
                    !["commit_id"] = commitId,
                    !["path"] = path,
                    !["line"] = line,
                    !["side"] = SideOrDefault(side),
                    !["start_line"] = IF startLine = Undefined THEN line
                                      ELSE startLine,
                    !["start_side"] = IF startSide = Undefined
                                      THEN SideOrDefault(side) ELSE startSide]

CommentBody(body, commitId, path, line, side, startLine, startSide) ==
  [EmptyArgs EXCEPT !["body"] = body,
                    !["commit_id"] = commitId,
                    !["path"] = path,
                    !["line"] = line,
                    !["side"] = SideOrDefault(side),
                    !["start_line"] = startLine,
                    !["start_side"] = startSide]

\* A variant that posts to the pull request itself.
CommentUrlNoSuffix(owner, repo, pullNumber) ==
  "https://api.github.com/repos/" \o TemplateString(owner) \o "/"
    \o TemplateString(repo) \o "/pulls/" \o TemplateString(pullNumber)

CommentUrl(owner, repo, pullNumber) ==
  "https://api.github.com/repos/" \o TemplateString(owner) \o "/"
    \o TemplateString(repo) \o "/pulls/" \o TemplateString(pullNumber)
    \o "/comments"

\* The request createPRReviewComment hands to fetch; p holds its parameters
\* under the names of the tool's arguments.
createPRReviewCommentRequest(token, p) ==
  Request("POST",
          CommentUrl(p.owner, p.repo, p.pull_number),
          Headers(token),
          JSONstringify(CommentBody(p.body, p.commit_id, p.path, p.line,
                                    p.side, p.start_line, p.start_side),
                        CommentBodyOrder))

PullUrl(owner, repo, pullNumber) ==
  "https://api.github.com/repos/" \o TemplateString(owner) \o "/"
    \o TemplateString(repo) \o "/pulls/" \o TemplateString(pullNumber)

\* A variant that defaults an absent state to "open".
updatePullRequestRequestDefaulted(token, owner, repo, pullNumber, options) ==
  Request("PATCH",
          PullUrl(owner, repo, pullNumber),
          Headers(token),
          JSONstringify([options EXCEPT !["state"] =
                           IF @ = Undefined THEN Str("open") ELSE @],
                        ArgKeys))

\* The request updatePullRequest hands to fetch: options serialized as it is.
updatePullRequestRequest(token, owner, repo, pullNumber, options) ==
  Request("PATCH",
          PullUrl(owner, repo, pullNumber),
          Headers(token),
          JSONstringify(options, ArgKeys))

\* `const { owner, repo, pull_number, ...options } = args`
UrlKeys == {"owner", "repo", "pull_number"}

\* A variant that passes the arguments whole.
RestOptionsWhole(args) == args

RestOptions(args) ==
  [k \in DOMAIN args |-> IF k \in UrlKeys THEN Undefined ELSE args[k]]

Facades == {"createPRReviewComment", "updatePullRequest"}

\* The request a facade builds from the parameters of its call.
FacadeRequest(fn, token, p) ==
  IF fn = "createPRReviewComment"
  THEN createPRReviewCommentRequest(token, p)
  ELSE updatePullRequestRequest(token, p.owner, p.repo, p.pull_number,
                                RestOptions(p))

\* The schema a facade parses its response with.
ResponseSchema(fn) ==
  IF fn = "createPRReviewComment"
  THEN GitHubPRReviewCommentSchema
  ELSE IF fn = "createPullRequestReview"
  THEN GitHubPullRequestReviewSchema
  ELSE GitHubPullRequestSchema

\* The facades the tests import from index.js beside the two above; their
\* code is not part of index.ts and is taken from the specification: the
\* parameters are validated, then one request is built and issued.
SpecifiedFacades == {"createPullRequestReview", "createPullRequest"}

ParameterSchema(fn) ==
  IF fn = "createPullRequestReview"
  THEN CreatePullRequestReviewSchema
  ELSE CreatePullRequestSchema

ValidationError(issues) == Err("ValidationError", ZodMessage(issues), issues)

ReviewBodyOrder == <<"body", "event", "commit_id">>
PullBodyOrder == <<"title", "head", "base", "body", "draft", "maintainer_can_modify">>

SpecifiedRequest(fn, token, p) ==
  IF fn = "createPullRequestReview"
  THEN Request("POST",
               PullUrl(p.owner, p.repo, p.pull_number) \o "/reviews",
               Headers(token),
               JSONstringify(p, ReviewBodyOrder))
  ELSE Request("POST",
               "https://api.github.com/repos/" \o TemplateString(p.owner) \o "/"
                 \o TemplateString(p.repo) \o "/pulls",
               Headers(token),
               JSONstringify(p, PullBodyOrder))

\* A variant whose upper limit is off by one.
ResponseOkInclusive(status) == status >= 200 /\ status <= 300

\* `response.ok`
ResponseOk(status) == status >= 200 /\ status < 300

\* `throw new Error(`GitHub API error: ${response.statusText}`)`
HttpError(statusText) == Err("Error", "GitHub API error: " \o statusText, <<>>)

\* What a facade call settles to.
FacadeOutcome(kind, error, result) ==
  [kind |-> kind, error |-> error, result |-> result]
Pending == FacadeOutcome("none", NoError, EmptyBody)
Rejected(error) == FacadeOutcome("error", error, EmptyBody)
Resolved(result) == FacadeOutcome("result", NoError, result)

\* A variant that returns the parsed body without checking it.
SchemaParseUnchecked(schema, json) == Resolved(ZodOutput(schema, json))

\* `return Schema.parse(await response.json())`, once the body is parsed.
SchemaParse(schema, json) ==
  LET issues == ZodIssues(schema, json)
  IN IF issues = <<>>
     THEN Resolved(ZodOutput(schema, json))
     ELSE Rejected(ZodError(issues))

\* ------------------------------------------------------ the tool handlers

\* The tools the ListTools handler returns.
\* A variant that also lists a tool the switch has no case for.
ListedToolsWithCreate ==
  <<"update_pull_request", "create_pr_review_comment", "create_pull_request">>

ListedTools == <<"update_pull_request", "create_pr_review_comment">>

\* The input schema of a tool the CallTool handler knows.
InputSchema(name) ==
  IF name = "update_pull_request"
  THEN UpdatePullRequestSchema
  ELSE CreatePRReviewCommentSchema

\* The facade a tool of the CallTool handler's switch calls.
FacadeOf(name) ==
  IF name = "update_pull_request"
  THEN "updatePullRequest"
  ELSE "createPRReviewComment"

\* `throw new Error("Arguments are required")`
ArgumentsRequired == Err("Error", "Arguments are required", <<>>)

\* A variant that leaves the name out of the message.
UnknownToolUnnamed(name) == Err("Error", "Unknown tool", <<>>)

\* `throw new Error(`Unknown tool: ${request.params.name}`)`
UnknownTool(name) == Err("Error", "Unknown tool: " \o name, <<>>)

\* A variant that reports the first issue only.
HandlerCatchFirstIssue(error) ==
  IF error.kind = "ZodError"
  THEN Err("Error",
           "Invalid arguments: "
             \o Join(error.issues[1].path, ".") \o ": " \o error.issues[1].message,
           <<>>)
  ELSE error

\* A variant that reports every error as one of the arguments.
HandlerCatchPrefixAll(error) ==
  IF error.kind = "ZodError"
  THEN Err("Error",
           "Invalid arguments: "
             \o Join([j \in 1..Len(error.issues) |->
                        Join(error.issues[j].path, ".") \o ": "
                          \o error.issues[j].message], ", "),
           <<>>)
  ELSE Err("Error", "Invalid arguments: " \o error.message, <<>>)

\* The catch block of the CallTool handler.
HandlerCatch(error) ==
  IF error.kind = "ZodError"
  THEN Err("Error",
           "Invalid arguments: "
             \o Join([j \in 1..Len(error.issues) |->
                        Join(error.issues[j].path, ".") \o ": "
                          \o error.issues[j].message], ", "),
           <<>>)
  ELSE error

\* The handler's code up to its call of a facade: the error it throws there
\* (before the catch block), or the facade it calls and the parameters.
Dispatched(error, fn, params, steps) ==
  [error |-> error, fn |-> fn, params |-> params, steps |-> steps]

\* `switch (request.params.name)`
Switch(name, args) ==
  IF name \in {"update_pull_request", "create_pr_review_comment"}
  THEN LET issues == ZodIssues(InputSchema(name), args)
       IN IF issues # <<>>
          THEN Dispatched(ZodError(issues), "", EmptyArgs, <<"validate_args">>)
          ELSE Dispatched(NoError, FacadeOf(name),
                          ZodOutput(InputSchema(name), args),
                          <<"validate_args">>)
  ELSE Dispatched(UnknownTool(name), "", EmptyArgs, <<>>)

\* A variant without the check of request.params.arguments.
DispatchNoArgumentsCheck(name, hasArgs, args) == Switch(name, args)

\* The try block: the arguments check, then the switch on the name.
\* A variant that looks at the name before the arguments.
DispatchNameFirst(name, hasArgs, args) ==
  IF name \notin {"update_pull_request", "create_pr_review_comment"}
  THEN Dispatched(UnknownTool(name), "", EmptyArgs, <<>>)
  ELSE IF ~hasArgs
  THEN Dispatched(ArgumentsRequired, "", EmptyArgs, <<>>)
  ELSE Switch(name, args)

Dispatch(name, hasArgs, args) ==
  IF ~hasArgs
  THEN Dispatched(ArgumentsRequired, "", EmptyArgs, <<>>)
  ELSE Switch(name, args)

\* What the handler answers or throws.
ToolOutcome(kind, error, content) ==
  [kind |-> kind, error |-> error, content |-> content]
NoOutcome == ToolOutcome("none", NoError, <<>>)

\* A variant that serializes the result without indentation.
HandlerReturnCompact(fn, result) ==
  ToolOutcome("content", NoError,
              << [type |-> "text",
                  text |-> JSONText(JSONstringify(result,
                             SchemaOrder(ResponseSchema(fn))))] >>)

\* `{ content: [{ type: "text", text: JSON.stringify(result, null, 2) }] }`
HandlerReturn(fn, result) ==
  ToolOutcome("content", NoError,
              << [type |-> "text",
                  text |-> JSONstringifyIndented(result,
                             SchemaOrder(ResponseSchema(fn)))] >>)

HandlerThrow(error) == ToolOutcome("error", HandlerCatch(error), <<>>)

\* -------------------------------------------------------------------- state

VARIABLES
  proc,                          \* "loading", "serving" or "exited"
  GITHUB_PERSONAL_ACCESS_TOKEN,  \* process.env.GITHUB_PERSONAL_ACCESS_TOKEN
  listed,                        \* the names the last ListTools answer held
  inv                            \* the invocations in flight, one per slot

vars == <<proc, GITHUB_PERSONAL_ACCESS_TOKEN, listed, inv>>

\* The invocations the transport may have in flight at once.
Slots == {1, 2}

NoResponse ==
  [kind |-> "none", status |-> 0, statusText |-> "", json |-> FALSE,
   body |-> EmptyBody]

\* One invocation: where it stands (pc), how it was made (via: a tool call or
\* a direct call of an exported facade), the tool name and arguments given,
\* the facade called and its parameters, the requests handed to fetch, the
\* response, the steps taken so far, and what the facade and the handler
\* settled to.
Idle ==
  [pc |-> "idle", via |-> "none", name |-> "", hasArgs |-> FALSE,
   args |-> EmptyArgs, fn |-> "", params |-> EmptyArgs, sent |-> <<>>,
   response |-> NoResponse, trace |-> <<>>, facade |-> Pending,
   outcome |-> NoOutcome]

\* ------------------------------------------------------------------- inputs

ToolCallNames ==
  {"update_pull_request", "create_pr_review_comment", "create_pull_request", ""}

PullNumbers == {Num(n) : n \in 1..MaxPullNumber}
Lines == {Num(n) : n \in 1..MaxLine}

UpdateArgs ==
  [owner : {Str("octo"), Undefined}, repo : {Str("repo")},
   pull_number : PullNumbers \cup {Str("7")},
   title : {Undefined, Str("T")}, body : {Undefined, Str("B")},
   state : {Undefined, Str("open"), Str("closed"), Str("invalid-state")},
   base : {Undefined, Str("main")},
   maintainer_can_modify : {Undefined, Bool(TRUE)},
   commit_id : {Undefined}, path : {Undefined}, line : {Undefined},
   side : {Undefined}, start_line : {Undefined}, start_side : {Undefined},
   event : {Undefined}, head : {Undefined}, draft : {Undefined}]

CommentArgs ==
  [owner : {Str("octo"), Undefined}, repo : {Str("repo")},
   pull_number : PullNumbers,
   title : {Undefined}, body : {Str("x")}, state : {Undefined},
   base : {Undefined}, maintainer_can_modify : {Undefined},
   commit_id : {Str("abc123"), Undefined}, path : {Str("f.ts"), Undefined},
   line : Lines \cup {Undefined},
   side : {Undefined, Str("LEFT"), Str("RIGHT"), Str("UP")},
   start_line : {Undefined, Num(1)}, start_side : {Undefined, Str("LEFT")},
   event : {Undefined}, head : {Undefined}, draft : {Undefined}]

\* Arguments that carry a property the tool's schema does not declare.
ExtraArgs ==
  {[EmptyArgs EXCEPT !["owner"] = Str("octo"), !["repo"] = Str("repo"),
                     !["pull_number"] = Num(1), !["title"] = Str("T"),
                     !["commit_id"] = Str("abc123")]}

\* The arguments a client sends with a tool name.
ToolArgs(name) ==
  CASE name = "update_pull_request" -> UpdateArgs \cup ExtraArgs
    [] name = "create_pr_review_comment" -> CommentArgs
    [] OTHER -> {EmptyArgs} \cup ExtraArgs

\* The parameters of a direct call of an exported facade: those its types
\* allow and the ill-typed ones the repository's tests pass (a state outside
\* the enumeration, no commitId, path or line).
FacadeParams(fn) ==
  IF fn = "updatePullRequest"
  THEN {p \in UpdateArgs : p.owner # Undefined /\ p.pull_number \in PullNumbers}
  ELSE {p \in CommentArgs : p.owner # Undefined /\ p.side # Str("UP")}

\* The parameters of a call of createPullRequestReview or createPullRequest:
\* valid ones and the ones the tests expect to be rejected (an event outside
\* the enumeration or none, an empty or missing title, head or base).
SpecifiedParams(fn) ==
  IF fn = "createPullRequestReview"
  THEN {[EmptyArgs EXCEPT !["owner"] = Str("octo"), !["repo"] = Str("repo"),
                          !["pull_number"] = n, !["body"] = Str("LGTM"),
                          !["event"] = e, !["commit_id"] = c] :
          n \in PullNumbers,
          e \in {Undefined, Str("APPROVE"), Str("REQUEST_CHANGES"),
                 Str("COMMENT"), Str("INVALID_EVENT")},
          c \in {Undefined, Str("abc123")}}
  ELSE {[EmptyArgs EXCEPT !["owner"] = Str("octo"), !["repo"] = Str("repo"),
                          !["title"] = t, !["head"] = h, !["base"] = b,
                          !["draft"] = d] :
          t \in {Str("Test PR"), Str(""), Undefined},
          h \in {Str("feature-branch"), Str(""), Undefined},
          b \in {Str("main"), Str("")},
          d \in {Undefined, Bool(TRUE)}}

StatusTexts == {"Unprocessable Entity - Invalid commit SHA", ""}

\* The bodies the remote service answers a facade's request with.
Bodies(fn) ==
  IF fn = "createPRReviewComment"
  THEN [id : {Num(1), Undefined, Str("1")}, path : {Str("f.ts"), Undefined},
        body : {Str("x"), Num(0)}, state : {Undefined}, title : {Undefined}]
  ELSE IF fn = "createPullRequestReview"
  THEN [id : {Num(1), Undefined}, path : {Undefined}, body : {Str("LGTM")},
        state : {Str("APPROVE"), Num(0)}, title : {Undefined}]
  ELSE [id : {Num(1), Undefined, Str("1")}, path : {Undefined},
        body : {Undefined}, state : {Str("closed"), Undefined},
        title : {Str("T"), Num(0)}]

\* A body that satisfies the facade's response schema, and one that violates
\* every field of it.
ValidBody(fn) ==
  IF fn = "createPRReviewComment"
  THEN [EmptyBody EXCEPT !["id"] = Num(1), !["path"] = Str("f.ts"), !["body"] = Str("x")]
  ELSE IF fn = "createPullRequestReview"
  THEN [EmptyBody EXCEPT !["id"] = Num(1), !["state"] = Str("APPROVE"), !["body"] = Str("LGTM")]
  ELSE [EmptyBody EXCEPT !["id"] = Num(1), !["state"] = Str("closed"), !["title"] = Str("T")]

BadBody(fn) ==
  IF fn = "createPRReviewComment"
  THEN [EmptyBody EXCEPT !["id"] = Str("1"), !["body"] = Num(0)]
  ELSE IF fn = "createPullRequestReview"
  THEN [EmptyBody EXCEPT !["state"] = Num(0)]
  ELSE [EmptyBody EXCEPT !["id"] = Str("1"), !["title"] = Num(0)]

Response(kind, status, statusText, json, body) ==
  [kind |-> kind, status |-> status, statusText |-> statusText,
   json |-> json, body |-> body]

\* What the network call of a facade settles to: a response of any status, with
\* a body that is JSON or not, or a rejection (the network failed).
Responses(fn) ==
  {Response("response", st, "OK", TRUE, b) : st \in {200, 299}, b \in Bodies(fn)}
    \cup {Response("response", st, "OK", FALSE, EmptyBody) : st \in {200, 201}}
    \cup {Response("response", st, tx, TRUE, b) :
            st \in {300, 422}, tx \in StatusTexts,
            b \in {ValidBody(fn), BadBody(fn)}}
    \cup {Response("response", st, tx, FALSE, EmptyBody) :
            st \in {199, 403}, tx \in StatusTexts}
    \cup {Response("reject", 0, "", FALSE, EmptyBody)}

\* ------------------------------------------------------------------ actions

Init ==
  /\ proc = "loading"
  /\ GITHUB_PERSONAL_ACCESS_TOKEN \in {Undefined, Str(""), Str("test-token")}
  /\ listed = <<>>
  /\ inv = [i \in Slots |-> Idle]

\* A variant that reports the missing token and goes on.
TokenCheckLogOnly(token) == "serving"

\* `if (!GITHUB_PERSONAL_ACCESS_TOKEN) { console.error(...); process.exit(1); }`
TokenCheck(token) == IF Falsy(token) THEN "exited" ELSE "serving"

\* The module's top level: without a token the process exits, with one it
\* registers its handlers and connects the transport.
Startup ==
  /\ proc = "loading"
  /\ proc' = TokenCheck(GITHUB_PERSONAL_ACCESS_TOKEN)
  /\ UNCHANGED <<GITHUB_PERSONAL_ACCESS_TOKEN, listed, inv>>

\* The ListTools handler.
ListTools ==
  /\ proc = "serving"
  /\ listed' = ListedTools
  /\ UNCHANGED <<proc, GITHUB_PERSONAL_ACCESS_TOKEN, inv>>

\* A variant that hands the request to the network twice.
IssueFetchTwice(sent, request) == sent \o <<request, request>>

\* `await fetch(url, init)`: the request is handed to the network.
IssueFetch(sent, request) == Append(sent, request)

\* A variant whose client identifier carries the name of the tool that made
\* the call.
FacadeStartTagged(s, fn, p, token) ==
  LET r == FacadeRequest(fn, token, p)
      tagged == [r EXCEPT !.headers.UserAgent = @ \o s.name]
  IN [s EXCEPT !.pc = "awaitFetch",
               !.fn = fn,
               !.params = p,
               !.sent = IssueFetch(@, tagged),
               !.trace = @ \o <<"build_request", "fetch">>]

\* A facade up to its first await: it builds the request and issues it.
FacadeStart(s, fn, p, token) ==
  [s EXCEPT !.pc = "awaitFetch",
            !.fn = fn,
            !.params = p,
            !.sent = IssueFetch(@, FacadeRequest(fn, token, p)),
            !.trace = @ \o <<"build_request", "fetch">>]

\* The facade's promise settles; a tool call's handler then answers or throws.
Settle(s, outcome) ==
  [s EXCEPT !.pc = "done",
            !.facade = outcome,
            !.trace = IF outcome.kind = "result" THEN Append(@, "return") ELSE @,
            !.outcome = IF s.via # "tool" THEN NoOutcome
                        ELSE IF outcome.kind = "result"
                        THEN HandlerReturn(s.fn, outcome.result)
                        ELSE HandlerThrow(outcome.error)]

\* A variant that calls the facade with the arguments as they came, before
\* their validation has thrown.
CallToolStepSpeculative(s, name, hasArgs, args, token) ==
  LET d == Dispatch(name, hasArgs, args)
      t == [s EXCEPT !.via = "tool", !.name = name, !.hasArgs = hasArgs,
                     !.args = args, !.trace = d.steps]
  IN IF d.error # NoError
     THEN IF d.error.kind = "ZodError"
          THEN [FacadeStart(t, FacadeOf(name), args, token)
                  EXCEPT !.pc = "done", !.outcome = HandlerThrow(d.error)]
          ELSE [t EXCEPT !.pc = "done", !.outcome = HandlerThrow(d.error)]
     ELSE FacadeStart(t, d.fn, d.params, token)

\* The CallTool handler, from the request to its first await or its throw.
CallToolStep(s, name, hasArgs, args, token) ==
  LET d == Dispatch(name, hasArgs, args)
      t == [s EXCEPT !.via = "tool", !.name = name, !.hasArgs = hasArgs,
                     !.args = args, !.trace = d.steps]
  IN IF d.error # NoError
     THEN [t EXCEPT !.pc = "done", !.outcome = HandlerThrow(d.error)]
     ELSE FacadeStart(t, d.fn, d.params, token)

CallTool(i) ==
  /\ proc = "serving"
  /\ inv[i].pc = "idle"
  /\ \E name \in ToolCallNames, hasArgs \in BOOLEAN :
       \E args \in (IF hasArgs THEN ToolArgs(name) ELSE {EmptyArgs}) :
         inv' = [inv EXCEPT ![i] =
                   CallToolStep(@, name, hasArgs, args,
                                GITHUB_PERSONAL_ACCESS_TOKEN)]
  /\ UNCHANGED <<proc, GITHUB_PERSONAL_ACCESS_TOKEN, listed>>

\* A direct call of an exported facade, as the repository's tests make it.
CallFacade(i) ==
  /\ proc = "serving"
  /\ inv[i].pc = "idle"
  /\ \E fn \in Facades :
       \E p \in FacadeParams(fn) :
         inv' = [inv EXCEPT ![i] =
                   FacadeStart([@ EXCEPT !.via = "facade"], fn, p,
                               GITHUB_PERSONAL_ACCESS_TOKEN)]
  /\ UNCHANGED <<proc, GITHUB_PERSONAL_ACCESS_TOKEN, listed>>

\* createPullRequestReview or createPullRequest up to its first await: the
\* parameters are checked, and only valid ones are built into a request.
SpecifiedStart(s, fn, p, token) ==
  LET issues == ZodIssues(ParameterSchema(fn), p)
      t == [s EXCEPT !.via = "facade", !.fn = fn, !.params = p,
                     !.trace = <<"validate_args">>]
  IN IF issues # <<>>
     THEN [t EXCEPT !.pc = "done", !.facade = Rejected(ValidationError(issues))]
     ELSE [t EXCEPT !.pc = "awaitFetch",
                    !.sent = IssueFetch(@, SpecifiedRequest(fn, token, p)),
                    !.trace = @ \o <<"build_request", "fetch">>]

CallSpecified(i) ==
  /\ proc = "serving"
  /\ inv[i].pc = "idle"
  /\ \E fn \in SpecifiedFacades :
       \E p \in SpecifiedParams(fn) :
         inv' = [inv EXCEPT ![i] =
                   SpecifiedStart(@, fn, p, GITHUB_PERSONAL_ACCESS_TOKEN)]
  /\ UNCHANGED <<proc, GITHUB_PERSONAL_ACCESS_TOKEN, listed>>

\* The facade after `await fetch`: a rejected fetch rejects the facade, a
\* status outside 2xx throws the HTTP error, and otherwise response.json()
\* is called and awaited.
AfterFetch(s, r) ==
  IF r.kind = "reject"
  THEN Settle([s EXCEPT !.response = r],
              Rejected(Err("FetchError", "request to " \o s.sent[1].url \o " failed", <<>>)))
  ELSE IF ~ResponseOk(r.status)
  THEN Settle([s EXCEPT !.response = r, !.trace = Append(@, "status_check")],
              Rejected(HttpError(r.statusText)))
  ELSE [s EXCEPT !.pc = "awaitJson",
                 !.response = r,
                 !.trace = @ \o <<"status_check", "parse_json">>]

FetchSettle(i) ==
  /\ inv[i].pc = "awaitFetch"
  /\ \E r \in Responses(inv[i].fn) :
       inv' = [inv EXCEPT ![i] = AfterFetch(@, r)]
  /\ UNCHANGED <<proc, GITHUB_PERSONAL_ACCESS_TOKEN, listed>>

\* The error response.json() rejects with when the body is not JSON: a
\* FetchError or a SyntaxError, by the version of the fetch library.
JsonErrors ==
  {Err("FetchError", "invalid json response body", <<>>),
   Err("SyntaxError", "Unexpected token in JSON", <<>>)}

\* A variant that swallows the rejection of response.json(): the facade's
\* promise is left pending.
AfterJsonPending(s, e) ==
  IF ~s.response.json
  THEN s
  ELSE Settle([s EXCEPT !.trace = Append(@, "validate_response")],
              SchemaParse(ResponseSchema(s.fn), s.response.body))

\* A variant that takes a body that is not JSON for an empty object.
AfterJsonLenient(s, e) ==
  Settle([s EXCEPT !.trace = Append(@, "validate_response")],
         SchemaParse(ResponseSchema(s.fn), s.response.body))

\* A variant that keeps the response in a variable of the module, which the
\* latest invocation of the same facade overwrites.
AfterJsonSharedResponse(s, e) ==
  LET others == {j \in Slots : /\ inv[j] # s
                               /\ inv[j].fn = s.fn
                               /\ inv[j].pc \in {"awaitJson", "done"}
                               /\ inv[j].response.kind = "response"
                               /\ inv[j].response # s.response}
      r == IF others = {} THEN s.response
           ELSE inv[CHOOSE j \in others : TRUE].response
  IN IF ~r.json
     THEN Settle(s, Rejected(e))
     ELSE Settle([s EXCEPT !.trace = Append(@, "validate_response")],
                 SchemaParse(ResponseSchema(s.fn), r.body))

\* The facade after `await response.json()`: a body that is not JSON rejects
\* the facade, a parsed body goes through the response schema.
AfterJson(s, e) ==
  IF ~s.response.json
  THEN Settle(s, Rejected(e))
  ELSE Settle([s EXCEPT !.trace = Append(@, "validate_response")],
              SchemaParse(ResponseSchema(s.fn), s.response.body))

JsonSettle(i) ==
  /\ inv[i].pc = "awaitJson"
  /\ \E e \in JsonErrors :
       inv' = [inv EXCEPT ![i] = AfterJson(@, e)]
  /\ UNCHANGED <<proc, GITHUB_PERSONAL_ACCESS_TOKEN, listed>>

\* The caller has its answer; nothing of the invocation is kept.
Return(i) ==
  /\ inv[i].pc = "done"
  /\ inv' = [inv EXCEPT ![i] = Idle]
  /\ UNCHANGED <<proc, GITHUB_PERSONAL_ACCESS_TOKEN, listed>>

\* One invocation at a time.
Next ==
  \/ Startup
  \/ ListTools
  \/ CallTool(1)
  \/ CallFacade(1)
  \/ CallSpecified(1)
  \/ FetchSettle(1)
  \/ JsonSettle(1)
  \/ Return(1)

Spec == Init /\ [][Next]_vars

\* ------------------------------------------------- concurrent invocations

\* The handler and the facades are async: a second invocation may start while
\* the first awaits fetch or response.json(), and the two settle in any order.
\* Both slots are driven, over fewer inputs than a single invocation is.

ConcurrentArgs(name) ==
  CASE name = "update_pull_request" ->
         {a \in UpdateArgs : /\ a.pull_number = Num(1)
                             /\ a.title = Str("T") /\ a.body = Undefined
                             /\ a.state \in {Str("closed"), Str("invalid-state")}
                             /\ a.base = Undefined
                             /\ a.maintainer_can_modify = Undefined}
    [] name = "create_pr_review_comment" ->
         {a \in CommentArgs : /\ a.owner = Str("octo") /\ a.pull_number = Num(1)
                              /\ a.commit_id = Str("abc123")
                              /\ a.path = Str("f.ts") /\ a.line = Num(1)
                              /\ a.side \in {Undefined, Str("LEFT")}
                              /\ a.start_line = Undefined
                              /\ a.start_side = Undefined}
    [] OTHER -> {EmptyArgs}

ConcurrentParams(fn) ==
  IF fn = "updatePullRequest"
  THEN FacadeParams(fn) \cap ConcurrentArgs("update_pull_request")
  ELSE IF fn = "createPRReviewComment"
  THEN FacadeParams(fn) \cap ConcurrentArgs("create_pr_review_comment")
  ELSE IF fn = "createPullRequestReview"
  THEN {p \in SpecifiedParams(fn) :
          /\ p.pull_number = Num(1) /\ p.commit_id = Undefined
          /\ p.event \in {Str("APPROVE"), Str("INVALID_EVENT")}}
  ELSE {p \in SpecifiedParams(fn) :
          /\ p.title \in {Str("Test PR"), Str("")}
          /\ p.head = Str("feature-branch") /\ p.base = Str("main")
          /\ p.draft = Undefined}

ConcurrentResponses(fn) ==
  {r \in Responses(fn) :
     \/ r.kind = "reject"
     \/ r.status = 200 /\ r.json /\ r.body \in {ValidBody(fn), BadBody(fn)}
     \/ r.status = 200 /\ ~r.json
     \/ r.status = 422 /\ ~r.json /\ r.statusText # ""}

InitConcurrent ==
  /\ proc = "loading"
  /\ GITHUB_PERSONAL_ACCESS_TOKEN \in {Undefined, Str("test-token"), Str("ghp_other")}
  /\ listed = <<>>
  /\ inv = [i \in Slots |-> Idle]

ConcurrentCallTool(i) ==
  /\ proc = "serving"
  /\ inv[i].pc = "idle"
  /\ \E name \in ToolCallNames, hasArgs \in BOOLEAN :
       \E args \in (IF hasArgs THEN ConcurrentArgs(name) ELSE {EmptyArgs}) :
         inv' = [inv EXCEPT ![i] =
                   CallToolStep(@, name, hasArgs, args,
                                GITHUB_PERSONAL_ACCESS_TOKEN)]
  /\ UNCHANGED <<proc, GITHUB_PERSONAL_ACCESS_TOKEN, listed>>

ConcurrentCallFacade(i) ==
  /\ proc = "serving"
  /\ inv[i].pc = "idle"
  /\ \E fn \in Facades :
       \E p \in ConcurrentParams(fn) :
         inv' = [inv EXCEPT ![i] =
                   FacadeStart([@ EXCEPT !.via = "facade"], fn, p,
                               GITHUB_PERSONAL_ACCESS_TOKEN)]
  /\ UNCHANGED <<proc, GITHUB_PERSONAL_ACCESS_TOKEN, listed>>

ConcurrentCallSpecified(i) ==
  /\ proc = "serving"
  /\ inv[i].pc = "idle"
  /\ \E fn \in SpecifiedFacades :
       \E p \in ConcurrentParams(fn) :
         inv' = [inv EXCEPT ![i] =
                   SpecifiedStart(@, fn, p, GITHUB_PERSONAL_ACCESS_TOKEN)]
  /\ UNCHANGED <<proc, GITHUB_PERSONAL_ACCESS_TOKEN, listed>>

ConcurrentFetchSettle(i) ==
  /\ inv[i].pc = "awaitFetch"
  /\ \E r \in ConcurrentResponses(inv[i].fn) :
       inv' = [inv EXCEPT ![i] = AfterFetch(@, r)]
  /\ UNCHANGED <<proc, GITHUB_PERSONAL_ACCESS_TOKEN, listed>>

NextConcurrent ==
  \/ Startup
  \/ ListTools
  \/ \E i \in Slots : ConcurrentCallTool(i)
  \/ \E i \in Slots : ConcurrentCallFacade(i)
  \/ \E i \in Slots : ConcurrentCallSpecified(i)
  \/ \E i \in Slots : ConcurrentFetchSettle(i)
  \/ \E i \in Slots : JsonSettle(i)
  \/ \E i \in Slots : Return(i)

SpecConcurrent == InitConcurrent /\ [][NextConcurrent]_vars

\* ------------------------------------------------------------ termination

\* One invocation at a time, over the inputs of the concurrent runs. Once
\* fetch has resolved, the body of the response is read to its end:
\* response.json() settles and the continuation of the facade runs. Nothing
\* makes fetch itself settle.
NextLive ==
  \/ Startup
  \/ ListTools
  \/ ConcurrentCallTool(1)
  \/ ConcurrentCallFacade(1)
  \/ ConcurrentCallSpecified(1)
  \/ ConcurrentFetchSettle(1)
  \/ JsonSettle(1)
  \/ Return(1)

SpecLive == Init /\ [][NextLive]_vars /\ WF_vars(JsonSettle(1))

\* ------------------------------------------------------------------- claims

\* The tool names the CallTool handler's switch has a case for.
Registered == {"update_pull_request", "create_pr_review_comment"}

\* The options of an update the caller may supply.
OptionKeys == {"title", "body", "state", "base", "maintainer_can_modify"}

\* What the caller of invocation s gave for k: the tool argument, or the
\* parameter of the direct call.
Given(s, k) == IF s.via = "tool" THEN s.args[k] ELSE s.params[k]

\* The fields of a schema an object violates.
Violated(schema, obj) == {f \in Range(schema) : Violates(f, obj[f.key])}

Non2xx(r) == r.kind = "response" /\ r.status \notin 200..299
Is2xx(r) == r.kind = "response" /\ r.status \in 200..299

\* C1: a response whose status is outside [200,300) makes the facade fail with
\* exactly "GitHub API error: " followed by the status text, whatever the body,
\* and the body is neither parsed nor validated.
C1_Non2xxIsHttpError ==
  \A i \in Slots :
    LET s == inv[i]
    IN Non2xx(s.response) =>
         /\ s.pc = "done"
         /\ s.facade.kind = "error"
         /\ s.facade.error.kind = "Error"
         /\ s.facade.error.message = "GitHub API error: " \o s.response.statusText
         /\ "parse_json" \notin Range(s.trace)
         /\ "validate_response" \notin Range(s.trace)

\* A 422 whose body would have passed the response schema is still the HTTP
\* error of its status text.
C1_Witness ==
  \E i \in Slots :
    /\ inv[i].fn = "createPRReviewComment"
    /\ inv[i].response.status = 422
    /\ inv[i].response.json
    /\ Violated(GitHubPRReviewCommentSchema, inv[i].response.body) = {}
    /\ inv[i].facade.error.message
         = "GitHub API error: Unprocessable Entity - Invalid commit SHA"

\* C2: a tool call whose arguments violate the tool's input schema fails with
\* "Invalid arguments: " followed by one "<field path>: <message>" entry per
\* violation, joined by ", ", and issues no network call.
C2_InvalidArgumentsMessage ==
  \A i \in Slots :
    LET s == inv[i]
        bad == SelectSeq(InputSchema(s.name),
                         LAMBDA f : Violates(f, s.args[f.key]))
        entries == [j \in 1..Len(bad) |->
                      bad[j].key \o ": " \o IssueMessage(bad[j], s.args[bad[j].key])]
    IN (s.via = "tool" /\ s.hasArgs /\ s.name \in Registered /\ bad # <<>>) =>
         /\ s.pc = "done"
         /\ s.outcome.kind = "error"
         /\ s.outcome.error.message = "Invalid arguments: " \o Join(entries, ", ")
         /\ s.facade = Pending
         /\ s.sent = <<>>

\* Two violations, both listed.
C2_Witness ==
  \E i \in Slots :
    /\ inv[i].name = "update_pull_request"
    /\ inv[i].sent = <<>>
    /\ inv[i].outcome.error.message
         = "Invalid arguments: owner: Required, state: Invalid enum value. "
             \o "Expected 'open' | 'closed', received 'invalid-state'"

\* C3: the side createPRReviewComment sends is "RIGHT" exactly when the caller
\* omitted side or passed "RIGHT"; an omitted side is sent as "RIGHT" and a
\* passed "LEFT" as "LEFT".
C3_SideDefault ==
  \A i \in Slots :
    LET s == inv[i]
        given == Given(s, "side")
        side == BodyValue(s.sent[1].body, "side")
    IN (s.fn = "createPRReviewComment" /\ s.sent # <<>>) =>
         /\ (side = Str("RIGHT")) <=> (given \in {Undefined, Str("RIGHT")})
         /\ given = Undefined => side = Str("RIGHT")
         /\ given = Str("LEFT") => side = Str("LEFT")

\* A passed "LEFT" went out as "LEFT".
C3_Witness ==
  \E i \in Slots :
    /\ inv[i].fn = "createPRReviewComment"
    /\ Given(inv[i], "side") = Str("LEFT")
    /\ inv[i].sent # <<>>
    /\ BodyValue(inv[i].sent[1].body, "side") = Str("LEFT")

\* C4: the keys of the PATCH body of updatePullRequest are exactly the options
\* the caller supplied, each with the value supplied; no key stands for an
\* option that was not supplied.
C4_UpdateBodyIsOptions ==
  \A i \in Slots :
    LET s == inv[i]
        supplied == {k \in OptionKeys : Given(s, k) # Undefined}
    IN (s.fn = "updatePullRequest" /\ s.sent # <<>> /\ supplied # {}) =>
         /\ BodyKeys(s.sent[1].body) = supplied
         /\ Len(s.sent[1].body) = Cardinality(supplied)
         /\ \A k \in supplied : BodyValue(s.sent[1].body, k) = Given(s, k)

\* Only state was supplied and only state went out.
C4_Witness ==
  \E i \in Slots :
    /\ inv[i].fn = "updatePullRequest"
    /\ inv[i].sent # <<>>
    /\ inv[i].sent[1].body = << <<"state", Str("closed")>> >>
    /\ JSONText(inv[i].sent[1].body) = "{\"state\":\"closed\"}"

\* C5 as stated: a tool call whose name is not registered fails with
\* "Unknown tool: <name>" and issues no network call.
C5_UnknownToolAlways ==
  \A i \in Slots :
    LET s == inv[i]
    IN (s.via = "tool" /\ s.name \notin Registered) =>
         /\ s.outcome.error.message = "Unknown tool: " \o s.name
         /\ s.sent = <<>>

\* C5, amended: a tool call that carries arguments and whose name is not
\* registered fails with "Unknown tool: <name>" and issues no network call.
C5_UnknownToolWithArguments ==
  \A i \in Slots :
    LET s == inv[i]
    IN (s.via = "tool" /\ s.hasArgs /\ s.name \notin Registered) =>
         /\ s.pc = "done"
         /\ s.outcome.kind = "error"
         /\ s.outcome.error.message = "Unknown tool: " \o s.name
         /\ s.sent = <<>>

C5_Witness ==
  \E i \in Slots :
    /\ inv[i].name = "create_pull_request"
    /\ inv[i].hasArgs
    /\ inv[i].outcome.error.message = "Unknown tool: create_pull_request"

\* C6: a tool call that carries no arguments fails with "Arguments are
\* required" and issues no network call, whatever its name.
C6_ArgumentsRequired ==
  \A i \in Slots :
    LET s == inv[i]
    IN (s.via = "tool" /\ ~s.hasArgs) =>
         /\ s.pc = "done"
         /\ s.outcome.kind = "error"
         /\ s.outcome.error.message = "Arguments are required"
         /\ s.sent = <<>>

\* A registered tool called without arguments.
C6_Witness ==
  \E i \in Slots :
    /\ inv[i].via = "tool"
    /\ inv[i].name = "update_pull_request"
    /\ ~inv[i].hasArgs
    /\ inv[i].outcome.error.message = "Arguments are required"

\* C7: an invocation issues at most one network call, exactly one once its
\* arguments passed validation, and still one after the call failed, the
\* status was not 2xx or the response failed validation.
C7_OneNetworkCall ==
  \A i \in Slots :
    LET s == inv[i]
        passed == \/ s.via = "facade" /\ s.fn \in Facades
                  \/ /\ s.via = "facade" /\ s.fn \in SpecifiedFacades
                     /\ Violated(ParameterSchema(s.fn), s.params) = {}
                  \/ /\ s.via = "tool" /\ s.hasArgs /\ s.name \in Registered
                     /\ Violated(InputSchema(s.name), s.args) = {}
    IN /\ Len(s.sent) <= 1
       /\ passed => Len(s.sent) = 1
       /\ (s.pc = "done" /\ s.response.kind # "none") => Len(s.sent) = 1

\* A response that failed validation, and one request behind it.
C7_Witness ==
  \E i \in Slots :
    /\ inv[i].pc = "done"
    /\ inv[i].via = "tool"
    /\ inv[i].facade.error.kind = "ZodError"
    /\ Len(inv[i].sent) = 1

\* C8: updatePullRequest called with a state outside {open, closed} fails
\* before any network activity: it rejects and issues no request.
C8_InvalidStateNoRequest ==
  \A i \in Slots :
    LET s == inv[i]
    IN (s.via = "facade" /\ s.fn = "updatePullRequest"
          /\ s.params.state \notin {Undefined, Str("open"), Str("closed")}) =>
         /\ s.sent = <<>>
         /\ s.pc = "done" => s.facade.kind = "error"

\* C9: createPRReviewComment called without commitId, path or line fails
\* before any network activity: it rejects and issues no request.
C9_MissingRequiredNoRequest ==
  \A i \in Slots :
    LET s == inv[i]
    IN (s.via = "facade" /\ s.fn = "createPRReviewComment"
          /\ \E k \in {"commit_id", "path", "line"} : s.params[k] = Undefined) =>
         /\ s.sent = <<>>
         /\ s.pc = "done" => s.facade.kind = "error"

\* C10: a 2xx response whose parsed body violates the response schema in
\* n >= 1 places makes the facade fail with a validation error that carries
\* one (field path, message) entry per violation, all n, and no result.
C10_AllViolationsReported ==
  \A i \in Slots :
    LET s == inv[i]
        bad == Violated(ResponseSchema(s.fn), s.response.body)
        issues == s.facade.error.issues
    IN (s.pc = "done" /\ Is2xx(s.response) /\ s.response.json /\ bad # {}) =>
         /\ s.facade.kind = "error"
         /\ s.facade.error.kind = "ZodError"
         /\ Len(issues) = Cardinality(bad)
         /\ {issues[j].path : j \in 1..Len(issues)} = {<<f.key>> : f \in bad}
         /\ \A j \in 1..Len(issues) : issues[j].message # ""
         /\ s.facade.result = EmptyBody
         /\ s.outcome.kind # "content"

\* Three violations, three entries.
C10_Witness ==
  \E i \in Slots :
    /\ inv[i].pc = "done"
    /\ inv[i].response.status = 200
    /\ Cardinality(Violated(ResponseSchema(inv[i].fn), inv[i].response.body)) = 3
    /\ Len(inv[i].facade.error.issues) = 3

\* C11: when a tool call passed argument validation and the 2xx response fails
\* the response schema, the error the invoker sees is the facade's validation
\* error unchanged, the same kind and the same message.
C11_ResponseErrorUnchanged ==
  \A i \in Slots :
    LET s == inv[i]
    IN (s.via = "tool" /\ s.pc = "done" /\ Is2xx(s.response) /\ s.response.json
          /\ s.facade.error.kind = "ZodError") =>
         /\ s.outcome.kind = "error"
         /\ s.outcome.error.kind = s.facade.error.kind
         /\ s.outcome.error.message = s.facade.error.message

\* C12: a 2xx response whose body is not JSON makes the facade fail with the
\* error of the JSON parse, after the status check and before any schema
\* validation; no result is returned.
C12_MalformedBody ==
  \A i \in Slots :
    LET s == inv[i]
    IN (s.pc = "done" /\ Is2xx(s.response) /\ ~s.response.json) =>
         /\ s.facade.kind = "error"
         /\ s.facade.error.kind \in {"FetchError", "SyntaxError"}
         /\ \E a, b \in 1..Len(s.trace) :
              a < b /\ s.trace[a] = "status_check" /\ s.trace[b] = "parse_json"
         /\ "validate_response" \notin Range(s.trace)
         /\ "return" \notin Range(s.trace)
         /\ s.facade.result = EmptyBody
         /\ s.outcome.kind # "content"

C12_Witness ==
  \E i \in Slots :
    /\ inv[i].pc = "done"
    /\ inv[i].via = "tool"
    /\ inv[i].response.status = 201
    /\ ~inv[i].response.json
    /\ inv[i].outcome.error.kind = "SyntaxError"

\* C13: a successful tool call returns exactly one content item, of type
\* text, whose text is the indented JSON of the validated result; a failed
\* call returns no content.
C13_SingleTextContent ==
  \A i \in Slots :
    LET s == inv[i]
        c == s.outcome.content
    IN (s.via = "tool" /\ s.pc = "done") =>
         /\ (s.outcome.kind = "content") <=> (s.facade.kind = "result")
         /\ s.outcome.kind # "content" => (s.outcome.kind = "error" /\ c = <<>>)
         /\ s.outcome.kind = "content" =>
              /\ Len(c) = 1
              /\ c[1].type = "text"
              /\ c[1].text = JSONstringifyIndented(s.facade.result,
                                 SchemaOrder(ResponseSchema(s.fn)))
              /\ Violated(ResponseSchema(s.fn), s.facade.result) = {}
              /\ s.facade.result = ValidBody("updatePullRequest") =>
                   c[1].text = "{\n  \"id\": 1,\n  \"state\": \"closed\",\n  \"title\": \"T\"\n}"

C13_Witness ==
  \E i \in Slots :
    /\ inv[i].pc = "done"
    /\ inv[i].name = "create_pr_review_comment"
    /\ inv[i].outcome.kind = "content"
    /\ inv[i].outcome.content[1].text
         = "{\n  \"id\": 1,\n  \"path\": \"f.ts\",\n  \"body\": \"x\"\n}"

\* C14: for valid parameters createPRReviewComment POSTs to
\* /repos/{owner}/{repo}/pulls/{pullNumber}/comments and updatePullRequest
\* PATCHes /repos/{owner}/{repo}/pulls/{pullNumber} on the API host, with the
\* call's own owner, repo and pullNumber in the path as they are.
C14_MethodAndUrl ==
  \A i \in Slots :
    LET s == inv[i]
        pull == "https://api.github.com/repos/" \o Given(s, "owner").s \o "/"
                  \o Given(s, "repo").s \o "/pulls/"
                  \o ToString(Given(s, "pull_number").n)
    IN (s.fn \in Facades /\ s.sent # <<>>) =>
         /\ s.fn = "createPRReviewComment" =>
              (s.sent[1].method = "POST" /\ s.sent[1].url = pull \o "/comments")
         /\ s.fn = "updatePullRequest" =>
              (s.sent[1].method = "PATCH" /\ s.sent[1].url = pull)

C14_Witness ==
  \E i \in Slots :
    /\ inv[i].sent # <<>>
    /\ inv[i].sent[1].method = "POST"
    /\ inv[i].sent[1].url = "https://api.github.com/repos/octo/repo/pulls/2/comments"

\* C17: without the access token at process start the process never serves:
\* no tool listing, no tool call and no outbound request.
C17_NoTokenNoService ==
  GITHUB_PERSONAL_ACCESS_TOKEN = Undefined =>
    /\ proc # "serving"
    /\ listed = <<>>
    /\ \A i \in Slots : inv[i] = Idle

C17_Witness ==
  GITHUB_PERSONAL_ACCESS_TOKEN = Undefined /\ proc = "exited"

\* C19: createPullRequestReview called with an event that is missing or
\* outside {APPROVE, REQUEST_CHANGES, COMMENT} fails with a validation error
\* and attempts no network call.
C19_InvalidEventRejected ==
  \A i \in Slots :
    LET s == inv[i]
    IN (s.fn = "createPullRequestReview"
          /\ s.params.event \notin {Str("APPROVE"), Str("REQUEST_CHANGES"),
                                    Str("COMMENT")}) =>
         /\ s.pc = "done"
         /\ s.facade.kind = "error"
         /\ s.facade.error.kind = "ValidationError"
         /\ <<"event">> \in {s.facade.error.issues[j].path :
                               j \in 1..Len(s.facade.error.issues)}
         /\ s.sent = <<>>
         /\ s.response = NoResponse

C19_Witness ==
  \E i \in Slots :
    /\ inv[i].fn = "createPullRequestReview"
    /\ inv[i].params.event = Str("INVALID_EVENT")
    /\ inv[i].facade.error.kind = "ValidationError"
    /\ inv[i].sent = <<>>

\* C20: createPullRequest called with an empty or missing title, head or base
\* rejects, before any network call is issued.
C20_EmptyTitleHeadBaseRejected ==
  \A i \in Slots :
    LET s == inv[i]
    IN (s.fn = "createPullRequest"
          /\ \E k \in {"title", "head", "base"} :
               s.params[k] \in {Undefined, Str("")}) =>
         /\ s.pc = "done"
         /\ s.facade.kind = "error"
         /\ s.sent = <<>>
         /\ s.response = NoResponse

C20_Witness ==
  \E i \in Slots :
    /\ inv[i].fn = "createPullRequest"
    /\ inv[i].params.title = Str("")
    /\ inv[i].params.head = Str("feature-branch")
    /\ inv[i].params.base = Str("main")
    /\ inv[i].facade.kind = "error"
    /\ inv[i].sent = <<>>

\* The header set index.ts writes in both facades (lines 103-108, 137-142),
\* with the token of this process.
FixedHeaders ==
  [Authorization |-> "token " \o GITHUB_PERSONAL_ACCESS_TOKEN.s,
   Accept |-> "application/vnd.github.v3+json",
   UserAgent |-> "github-mcp-server",
   ContentType |-> "application/json"]

\* C15: two invocations of the same facade with identical parameters, however
\* they were made and however their steps interleave with other invocations,
\* issue requests with the same method, URL, headers and body.
C15_SameParamsSameRequest ==
  \A i, j \in Slots :
    (/\ inv[i].sent # <<>> /\ inv[j].sent # <<>>
     /\ inv[i].fn = inv[j].fn
     /\ inv[i].params = inv[j].params) =>
       /\ Len(inv[i].sent) = Len(inv[j].sent)
       /\ \A k \in 1..Len(inv[i].sent) :
            /\ inv[i].sent[k].method = inv[j].sent[k].method
            /\ inv[i].sent[k].url = inv[j].sent[k].url
            /\ inv[i].sent[k].headers = inv[j].sent[k].headers
            /\ inv[i].sent[k].body = inv[j].sent[k].body

C15_Witness ==
  /\ inv[1].via = "tool" /\ inv[2].via = "facade"
  /\ inv[1].fn = "createPRReviewComment" /\ inv[2].fn = inv[1].fn
  /\ inv[1].params = inv[2].params
  /\ inv[1].pc = "done" /\ inv[2].pc = "awaitFetch"
  /\ inv[1].sent # <<>> /\ inv[1].sent = inv[2].sent

\* The states an invocation passes through when it runs alone, from the idle
\* record, with the inputs and the response of s.
AloneStates(s) ==
  LET token == GITHUB_PERSONAL_ACCESS_TOKEN
      start == IF s.via = "tool"
               THEN CallToolStep(Idle, s.name, s.hasArgs, s.args, token)
               ELSE IF s.fn \in Facades
               THEN FacadeStart([Idle EXCEPT !.via = "facade"], s.fn, s.params, token)
               ELSE SpecifiedStart(Idle, s.fn, s.params, token)
      fetched == AfterFetch(start, s.response)
  IN {start}
       \cup (IF start.pc = "awaitFetch" /\ s.response # NoResponse
             THEN {fetched} ELSE {})
       \cup (IF start.pc = "awaitFetch" /\ s.response # NoResponse
                /\ fetched.pc = "awaitJson"
             THEN {AfterJson(fetched, e) : e \in JsonErrors} ELSE {})

\* C16: with two invocations in flight, in every interleaving of their steps,
\* each invocation's request and outcome are those of running it alone with
\* its own arguments and its own response, and two invocations with the same
\* arguments and the same JSON response settle alike.
C16_ConcurrentIndependent ==
  /\ \A i \in Slots : inv[i].pc # "idle" => inv[i] \in AloneStates(inv[i])
  /\ \A i, j \in Slots :
       (/\ inv[i].pc = "done" /\ inv[j].pc = "done"
        /\ inv[i].via = inv[j].via /\ inv[i].name = inv[j].name
        /\ inv[i].hasArgs = inv[j].hasArgs /\ inv[i].args = inv[j].args
        /\ inv[i].fn = inv[j].fn /\ inv[i].params = inv[j].params
        /\ inv[i].response = inv[j].response
        /\ (Is2xx(inv[i].response) => inv[i].response.json)) =>
          /\ inv[i].sent = inv[j].sent
          /\ inv[i].facade = inv[j].facade
          /\ inv[i].outcome = inv[j].outcome

C16_Witness ==
  /\ inv[1].via = "tool" /\ inv[2].via = "tool"
  /\ inv[1].fn = "updatePullRequest" /\ inv[2].fn = "updatePullRequest"
  /\ inv[1].pc = "done" /\ inv[2].pc = "done"
  /\ inv[1].response.json /\ inv[2].response.json
  /\ inv[1].response.body = ValidBody("updatePullRequest")
  /\ inv[2].response.body = BadBody("updatePullRequest")
  /\ inv[1].outcome.kind = "content"
  /\ inv[2].outcome.kind = "error"

\* C18: every request a facade issues carries the fixed header set: the
\* authorization built from the token read at start-up, the JSON accept
\* header, the client identifier and the JSON content type; the
\* authorization is the same in every request of the process.
C18_FixedHeaders ==
  /\ \A i \in Slots :
       \A k \in 1..Len(inv[i].sent) : inv[i].sent[k].headers = FixedHeaders
  /\ \A i, j \in Slots :
       \A k \in 1..Len(inv[i].sent), l \in 1..Len(inv[j].sent) :
         inv[i].sent[k].headers.Authorization
           = inv[j].sent[l].headers.Authorization

C18_Witness ==
  /\ GITHUB_PERSONAL_ACCESS_TOKEN = Str("ghp_other")
  /\ inv[1].fn = "updatePullRequest" /\ inv[2].fn = "createPRReviewComment"
  /\ inv[1].sent # <<>> /\ inv[2].sent # <<>>
  /\ inv[1].sent[1].headers.Authorization = "token ghp_other"
  /\ inv[2].sent[1].headers.Authorization = "token ghp_other"

\* The steps of one tool invocation, in the order of the code: the schema
\* parse of the arguments, the facade building its request, fetch, the check
\* of response.ok, response.json(), the parse by the response schema, return.
StepOrder ==
  <<"validate_args", "build_request", "fetch", "status_check", "parse_json",
    "validate_response", "return">>

IsPrefix(t, u) == Len(t) <= Len(u) /\ t = SubSeq(u, 1, Len(t))

\* C21: the steps of one tool invocation are taken in the order validation of
\* the arguments, construction of the request, the network call, the status
\* check, validation of the response, return; a step that fails is the last
\* one taken.
C21_StepsInOrder ==
  \A i \in Slots :
    LET s == inv[i]
        failed == s.pc = "done" /\ s.outcome.kind = "error"
    IN s.via = "tool" =>
         /\ IsPrefix(s.trace, StepOrder)
         /\ (s.sent # <<>>) <=> (Len(s.trace) >= 3)
         /\ s.pc = "awaitFetch" => s.trace = SubSeq(StepOrder, 1, 3)
         /\ s.pc = "awaitJson" => s.trace = SubSeq(StepOrder, 1, 5)
         /\ (s.pc = "done" /\ s.outcome.kind = "content") <=> s.trace = StepOrder
         /\ (failed /\ (~s.hasArgs \/ s.name \notin Registered)) => s.trace = <<>>
         /\ (failed /\ s.hasArgs /\ s.name \in Registered
               /\ Violated(InputSchema(s.name), s.args) # {}) =>
              s.trace = SubSeq(StepOrder, 1, 1)
         /\ (failed /\ s.response.kind = "reject") =>
              s.trace = SubSeq(StepOrder, 1, 3)
         /\ (failed /\ Non2xx(s.response)) => s.trace = SubSeq(StepOrder, 1, 4)
         /\ (failed /\ Is2xx(s.response) /\ ~s.response.json) =>
              s.trace = SubSeq(StepOrder, 1, 5)
         /\ (failed /\ Is2xx(s.response) /\ s.response.json) =>
              s.trace = SubSeq(StepOrder, 1, 6)

\* One invocation stopped at the status check, one at the response schema.
C21_Witness ==
  \E i \in Slots :
    /\ inv[i].via = "tool" /\ inv[i].pc = "done"
    /\ inv[i].name = "create_pr_review_comment"
    /\ inv[i].response.status = 200 /\ inv[i].response.json
    /\ inv[i].outcome.kind = "error"
    /\ inv[i].trace = <<"validate_args", "build_request", "fetch",
                        "status_check", "parse_json", "validate_response">>

\* C22: a tool invocation that fails with a message beginning with
\* "Invalid arguments: " has issued no network call.
C22_InvalidArgumentsNoRequest ==
  \A i \in Slots :
    LET s == inv[i]
        m == s.outcome.error.message
    IN (s.via = "tool" /\ s.pc = "done" /\ s.outcome.kind = "error"
          /\ Len(m) >= 19 /\ SubSeq(m, 1, 19) = "Invalid arguments: ") =>
         s.sent = <<>>

\* C23: when the facade of a tool invocation fails with the HTTP error of a
\* status outside 2xx, the invoker gets exactly "GitHub API error: " followed
\* by the status text.
C23_HttpErrorSurfacesUnchanged ==
  \A i \in Slots :
    LET s == inv[i]
    IN (s.via = "tool" /\ s.pc = "done" /\ Non2xx(s.response)) =>
         /\ s.outcome.kind = "error"
         /\ s.outcome.error.kind = "Error"
         /\ s.outcome.error.message
              = "GitHub API error: " \o s.response.statusText
         /\ s.outcome.error = s.facade.error

C23_Witness ==
  \E i \in Slots :
    /\ inv[i].via = "tool" /\ inv[i].pc = "done"
    /\ inv[i].response.status = 422
    /\ inv[i].outcome.error.message
         = "GitHub API error: Unprocessable Entity - Invalid commit SHA"

\* C24: createPRReviewComment sends start_line and start_side as the caller
\* gave them, and sends no start_line or start_side key when the caller
\* omitted them.
C24_StartPassThrough ==
  \A i \in Slots :
    LET s == inv[i]
    IN (s.fn = "createPRReviewComment" /\ s.sent # <<>>) =>
         \A k \in {"start_line", "start_side"} :
           /\ Given(s, k) # Undefined =>
                /\ k \in BodyKeys(s.sent[1].body)
                /\ BodyValue(s.sent[1].body, k) = Given(s, k)
           /\ Given(s, k) = Undefined => k \notin BodyKeys(s.sent[1].body)

\* A single-line comment: neither key is in the text sent.
C24_Witness ==
  \E i \in Slots :
    /\ inv[i].fn = "createPRReviewComment"
    /\ inv[i].sent # <<>>
    /\ Given(inv[i], "start_line") = Undefined
    /\ Given(inv[i], "start_side") = Undefined
    /\ JSONText(inv[i].sent[1].body)
         = "{\"body\":\"x\",\"commit_id\":\"abc123\",\"path\":\"f.ts\",\"line\":1,\"side\":\"RIGHT\"}"

\* C26: the names the tool listing returns are the names the dispatcher
\* accepts: a call with arguments is rejected as unknown exactly when its name
\* is not listed, and a listed name with valid arguments reaches its facade.
C26_ListedIsDispatched ==
  listed # <<>> =>
    /\ Range(listed) = Registered
    /\ \A i \in Slots :
         LET s == inv[i]
             unknown == /\ s.outcome.kind = "error"
                        /\ s.outcome.error.message = "Unknown tool: " \o s.name
                        /\ s.fn = ""
         IN (s.via = "tool" /\ s.hasArgs) =>
              /\ unknown <=> (s.name \notin Range(listed))
              /\ (s.name \in Range(listed)
                    /\ Violated(InputSchema(s.name), s.args) = {}) =>
                   (s.fn = FacadeOf(s.name) /\ s.fn \in Facades /\ s.sent # <<>>)

C26_Witness ==
  /\ listed = <<"update_pull_request", "create_pr_review_comment">>
  /\ inv[1].via = "tool" /\ inv[1].hasArgs
  /\ inv[1].name = "create_pull_request"
  /\ inv[1].outcome.error.message = "Unknown tool: create_pull_request"

\* C27: a tool call with an unknown name and no arguments fails with
\* "Arguments are required"; the name has no part in the outcome.
C27_ArgumentsBeforeName ==
  \A i \in Slots :
    LET s == inv[i]
    IN (s.via = "tool" /\ ~s.hasArgs /\ s.name \notin Registered) =>
         /\ s.pc = "done"
         /\ s.outcome.kind = "error"
         /\ s.outcome.error = ArgumentsRequired
         /\ s.trace = <<>> /\ s.fn = "" /\ s.sent = <<>>
         /\ \A n \in ToolCallNames :
              CallToolStep(Idle, n, FALSE, s.args,
                           GITHUB_PERSONAL_ACCESS_TOKEN).outcome = s.outcome

C27_Witness ==
  \E i \in Slots :
    /\ inv[i].via = "tool"
    /\ inv[i].name = "create_pull_request"
    /\ ~inv[i].hasArgs
    /\ inv[i].pc = "done"
    /\ inv[i].outcome.error.message = "Arguments are required"

\* C28: an update_pull_request call that reaches the network uses owner, repo
\* and pull_number for the URL only: the PATCH body has none of these keys
\* and carries every other validated argument with its value.
C28_UrlKeysNotInBody ==
  \A i \in Slots :
    LET s == inv[i]
        validated == SchemaKeys(UpdatePullRequestSchema) \ UrlKeys
    IN (s.via = "tool" /\ s.name = "update_pull_request" /\ s.sent # <<>>) =>
         /\ s.sent[1].method = "PATCH"
         /\ s.sent[1].url
              = PullUrl(s.args.owner, s.args.repo, s.args.pull_number)
         /\ BodyKeys(s.sent[1].body) \cap UrlKeys = {}
         /\ \A k \in validated :
              s.args[k] # Undefined =>
                /\ k \in BodyKeys(s.sent[1].body)
                /\ BodyValue(s.sent[1].body, k) = s.args[k]

\* Two options given: both are in the body, the three URL keys are not.
C28_Witness ==
  \E i \in Slots :
    /\ inv[i].via = "tool" /\ inv[i].name = "update_pull_request"
    /\ inv[i].sent # <<>>
    /\ inv[i].sent[1].url = "https://api.github.com/repos/octo/repo/pulls/2"
    /\ JSONText(inv[i].sent[1].body) = "{\"title\":\"T\",\"state\":\"closed\"}"

\* An invocation that has terminated has exactly one outcome: a result that
\* satisfies the response schema, or an error.
OneOutcome(s) ==
  /\ s.facade.kind = "result" =>
       /\ s.facade.error = NoError
       /\ Is2xx(s.response) /\ s.response.json
       /\ Violated(ResponseSchema(s.fn), s.facade.result) = {}
  /\ s.facade.kind = "error" =>
       s.facade.error # NoError /\ s.facade.result = EmptyBody
  /\ s.via = "facade" => s.facade.kind \in {"result", "error"}
  /\ s.via = "tool" =>
       /\ s.outcome.kind \in {"content", "error"}
       /\ s.outcome.kind = "content" =>
            /\ s.outcome.error = NoError /\ Len(s.outcome.content) = 1
            /\ s.facade.kind = "result"
       /\ s.outcome.kind = "error" =>
            s.outcome.error # NoError /\ s.outcome.content = <<>>

\* C25: an invocation whose network call has completed terminates, with
\* exactly one outcome, a validated result or an error; before it terminates
\* it has none; and an invocation that awaits fetch leaves that state only
\* when fetch settles: nothing else ends it.
C25_TerminatesWithOneOutcome ==
  /\ [](\A i \in Slots :
          /\ inv[i].pc = "done" => OneOutcome(inv[i])
          /\ inv[i].pc \in {"awaitFetch", "awaitJson"} =>
               inv[i].facade = Pending /\ inv[i].outcome = NoOutcome)
  /\ [][\A i \in Slots :
          (inv[i].pc = "awaitFetch" /\ inv'[i] # inv[i]) =>
            /\ inv[i].response = NoResponse
            /\ inv'[i].response # NoResponse
            /\ inv'[i].pc \in {"awaitJson", "done"}]_vars
  /\ \A i \in Slots :
       (inv[i].response # NoResponse) ~> (inv[i].pc = "done")

\* The body of a 200 response was not JSON; the invocation ended with an error.
C25_Witness ==
  \E i \in Slots :
    /\ inv[i].via = "tool" /\ inv[i].pc = "done"
    /\ inv[i].response.status = 200 /\ ~inv[i].response.json
    /\ inv[i].outcome.kind = "error"
    /\ inv[i].facade.kind = "error"

====
